---- MODULE Spec2Model ----
(***************************************************************************)
(* Model of main.py: GitHubAPI (archive locator, archive lister, per-file  *)
(* fetcher, parallel orchestrator) and the module-level example run.       *)
(*                                                                         *)
(* Strings are sequences of tokens.  A path is a sequence of one-character *)
(* tokens; the fixed pieces of the f-strings are single tokens.            *)
(***************************************************************************)
EXTENDS Integers, Sequences, FiniteSets, TLC

\* ---------------------------------------------------------------- bounds
\* Longest archive entry list the lister returns.
MaxFiles == 3
\* os.cpu_count(): size of the process pool.
MaxWorkers == 2

\* ------------------------------------------------------------- constants
BASE_URL == "https://api.github.com"
owner == "Shell1010"
repo == "Selfcord"
RAW_HOST == "https://raw.githubusercontent.com/"
\* A redirect target a Location header may carry.
LOCATION == "https://codeload.github.com/zip"
NoHeader == "<absent>"

MD == <<".", "m", "d">>
GO == <<".", "g", "o">>

\* Extension lists a GitHubAPI instance is constructed with (None -> ['.md']).
ExtensionLists == { <<MD>>, <<GO, MD>> }

\* Entry names a downloaded archive may list, in archive order.
ArchiveEntries ==
    << <<"r", "/">>,
       <<"r", "/", "a", ".", "m", "d">>,
       <<"r", "/", "s", ".", "m", "d", "/">>,
       <<"r", "/", "s", ".", "m", "d", "/", "b", ".", "g", "o">>,
       <<"a", ".", "m", "d">>,
       <<"r", "/", "a", ".", "m", "d">> >>

\* Status codes session.get may hand back (redirects that were not followed
\* included) and whether a Location header comes with them.  Response.ok,
\* "success", is status < 400.
StatusCodes == {200, 301, 302, 404}
LocationHeaders == {NoHeader, LOCATION}

\* ------------------------------------------------------- string helpers
\* str.split("/")
RECURSIVE Split(_)
Split(s) ==
    IF \E i \in 1..Len(s) : s[i] = "/"
    THEN LET i == CHOOSE j \in 1..Len(s) :
                      s[j] = "/" /\ \A k \in 1..(j - 1) : s[k] # "/"
         IN  <<SubSeq(s, 1, i - 1)>> \o Split(SubSeq(s, i + 1, Len(s)))
    ELSE <<s>>

\* "/".join(parts)
RECURSIVE Join(_)
Join(parts) ==
    IF parts = <<>> THEN <<>>
    ELSE IF Len(parts) = 1 THEN parts[1]
    ELSE parts[1] \o <<"/">> \o Join(Tail(parts))

\* str.endswith(suffix)
EndsWith(s, suffix) ==
    /\ Len(suffix) <= Len(s)
    /\ SubSeq(s, Len(s) - Len(suffix) + 1, Len(s)) = suffix

\* ------------------------------------------------- GitHubAPI, pure parts
\* response.raise_for_status(): 4xx and 5xx raise HTTPError.
\* (faulty variant: the status is never checked)
RaiseForStatusNever(status) == FALSE
RaiseForStatus(status) == status >= 400 /\ status < 600

\* f"{BASE_URL}/repos/{owner}/{repo}/zipball/main"
ArchiveEndpoint == <<BASE_URL, "/repos/", owner, "/", repo, "/zipball/main">>

\* path.split("/") followed by pop(0)
PathParts(path) == Tail(Split(path))

\* path_parts[-1] raises IndexError on an empty list.
RaisesIndexError(path) == PathParts(path) = <<>>

\* (faulty variant: path_parts[0])
FileNameFirst(path) == PathParts(path)[1]
FileName(path) == PathParts(path)[Len(PathParts(path))]

\* any(file_name.endswith(ext) for ext in self.allowed_extensions)
IsAllowed(file_name, exts) ==
    \E k \in 1..Len(exts) : EndsWith(file_name, exts[k])

\* f"https://raw.githubusercontent.com/{owner}/{repo}/main/{'/'.join(path_parts)}"
\* (faulty variant: the URL is built from file_name alone)
RawUrlOfFileName(path) ==
    <<RAW_HOST, owner, "/", repo, "/main/">> \o FileName(path)
RawUrl(path) ==
    <<RAW_HOST, owner, "/", repo, "/main/">> \o Join(PathParts(path))

\* f"\n\"{url}\" starts here\n{response.text}\n\"{file_name}\" ends here\n"
Fragment(url, text, file_name) ==
    <<"\n", "\"">> \o url \o <<"\"", " starts here", "\n">>
        \o text
        \o <<"\n", "\"">> \o file_name \o <<"\"", " ends here", "\n">>

\* except requests.exceptions.RequestException: return ""
\* (faulty variants: "except Exception", and no handler at all)
SwallowedAll(exc) == TRUE
SwallowedNone(exc) == FALSE
Swallowed(exc) == exc = "RequestException"

\* Bodies a raw-content request may return: plain text, and a file that
\* quotes the scraper's own output for r/a.md.
PlainText == <<"x">>
QuotedOutput ==
    Fragment(RawUrl(ArchiveEntries[2]), PlainText, FileName(ArchiveEntries[2]))
Texts == {PlainText, QuotedOutput}

\* What requests.get(url) followed by raise_for_status() does: a body, a
\* RequestException, or no return at all (no timeout is set).
NoResponse == [kind |-> "none", text |-> <<>>]
Responses ==
    [kind : {"ok"}, text : Texts]
        \cup {[kind |-> "error", text |-> <<>>], [kind |-> "hang", text |-> <<>>]}

\* How a call ends: with a returned string, or with an exception.
Returns(value) == [result |-> value, exc |-> ""]
Raises(exc) == IF Swallowed(exc) THEN Returns(<<>>) ELSE [result |-> <<>>, exc |-> exc]

\* True when _scrape_code_for_file(path) reaches requests.get.
IssuesRequest(path, exts) ==
    /\ ~ RaisesIndexError(path)
    /\ IsAllowed(FileName(path), exts)

\* _scrape_code_for_file(path), given what requests.get does if it is reached.
ScrapeCodeForFile(path, exts, response) ==
    IF RaisesIndexError(path) THEN Raises("IndexError")
    ELSE IF ~ IsAllowed(FileName(path), exts) THEN Returns(<<>>)
    ELSE IF response.kind = "error" THEN Raises("RequestException")
    ELSE Returns(Fragment(RawUrl(path), response.text, FileName(path)))

\* ------------------------------------------------------------------ state
VARIABLES
    pc,                 \* position of the main process
    allowed_extensions, \* self.allowed_extensions
    requests_made,      \* requests of self.session, in order: [url, status]
    archive_url,        \* value returned by get_archive_url
    file_paths,         \* value returned by get_all_file_paths
    futures,            \* code_futures: one record per submitted call
    consumed,           \* futures as_completed has yielded
    code_buffer,        \* scrape_code's accumulator
    error,              \* exception in flight in the main process, or ""
    printed,            \* console output of the example run
    scraped_txt,        \* scraped.txt: <<>> if never opened, else <<content>>
    writes              \* number of times scraped.txt was written

vars ==
    <<pc, allowed_extensions, requests_made, archive_url, file_paths, futures,
      consumed, code_buffer, error, printed, scraped_txt, writes>>

NoUrl == <<>>

Init ==
    /\ pc = "get_archive_url"
    /\ allowed_extensions \in ExtensionLists
    /\ requests_made = <<>>
    /\ archive_url = NoUrl
    /\ file_paths = <<>>
    /\ futures = <<>>
    /\ consumed = {}
    /\ code_buffer = <<>>
    /\ error = ""
    /\ printed = ""
    /\ scraped_txt = <<>>
    /\ writes = 0

\* ---------------------------------------------------------- main process
\* get_archive_url, called from get_all_file_paths.
GetArchiveUrl ==
    /\ pc = "get_archive_url"
    /\ \E status \in StatusCodes, location \in LocationHeaders :
        /\ requests_made' = Append(requests_made,
               [url |-> ArchiveEndpoint, status |-> status, location |-> location])
        /\ IF RaiseForStatus(status)
           THEN /\ error' = "HTTPError"
                /\ pc' = "except"
                /\ UNCHANGED archive_url
           ELSE IF status = 302
           THEN IF location = NoHeader
                THEN /\ error' = "KeyError"
                     /\ pc' = "except"
                     /\ UNCHANGED archive_url
                ELSE /\ archive_url' = <<location>>
                     /\ pc' = "download"
                     /\ UNCHANGED error
           ELSE /\ archive_url' = ArchiveEndpoint
                /\ pc' = "download"
                /\ UNCHANGED error
    /\ UNCHANGED <<allowed_extensions, file_paths, futures, consumed,
                   code_buffer, printed, scraped_txt, writes>>

\* Entry lists zip_file.infolist() may yield: the archive's entries, in order.
RECURSIVE Select(_, _)
Select(entries, keep) ==
    IF entries = <<>> THEN <<>>
    ELSE (IF Len(entries) \in keep THEN Select(SubSeq(entries, 1, Len(entries) - 1), keep)
                                         \o <<entries[Len(entries)]>>
          ELSE Select(SubSeq(entries, 1, Len(entries) - 1), keep))

EntryLists ==
    { Select(ArchiveEntries, keep) :
        keep \in { k \in SUBSET (1..Len(ArchiveEntries)) : Cardinality(k) <= MaxFiles } }

\* The rest of get_all_file_paths: download the archive and list it.
GetAllFilePaths ==
    /\ pc = "download"
    /\ \E status \in {200, 404} :
        /\ requests_made' = Append(requests_made,
               [url |-> archive_url, status |-> status, location |-> NoHeader])
        /\ IF RaiseForStatus(status)
           THEN /\ error' = "HTTPError"
                /\ pc' = "except"
                /\ UNCHANGED file_paths
           ELSE \/ /\ error' = "BadZipFile"
                   /\ pc' = "except"
                   /\ UNCHANGED file_paths
                \/ /\ file_paths' \in EntryLists
                   /\ pc' = "submit"
                   /\ UNCHANGED error
    /\ UNCHANGED <<allowed_extensions, archive_url, futures, consumed,
                   code_buffer, printed, scraped_txt, writes>>

\* The paths the list comprehension submits, one call each.
\* (faulty variant: file_paths[1:])
SubmittedPathsButFirst(paths) == IF paths = <<>> THEN <<>> ELSE Tail(paths)
SubmittedPaths(paths) == paths

NewFuture(path) ==
    [path |-> path, st |-> "pending", calls |-> 0, fetches |-> 0,
     response |-> NoResponse, result |-> <<>>, exc |-> ""]

\* [executor.submit(self._scrape_code_for_file, path) for path in file_paths]
Submit ==
    /\ pc = "submit"
    /\ futures' = [i \in 1..Len(SubmittedPaths(file_paths)) |->
                       NewFuture(SubmittedPaths(file_paths)[i])]
    /\ pc' = "as_completed"
    /\ UNCHANGED <<allowed_extensions, requests_made, archive_url, file_paths,
                   consumed, code_buffer, error, printed, scraped_txt, writes>>

\* code_buffer += future.result()
\* (faulty variant: "=" for "+=")
AccumulateOverwrite(buffer, result) == result
Accumulate(buffer, result) == buffer \o result

\* One iteration of "for future in as_completed(code_futures)".
Collect(i) ==
    /\ pc = "as_completed"
    /\ i \in (1..Len(futures)) \ consumed
    /\ futures[i].st = "done"
    /\ consumed' = consumed \cup {i}
    /\ IF futures[i].exc # ""
       THEN /\ error' = futures[i].exc
            /\ pc' = "exit_pool"
            /\ UNCHANGED code_buffer
       ELSE /\ code_buffer' = Accumulate(code_buffer, futures[i].result)
            /\ UNCHANGED <<error, pc>>
    /\ UNCHANGED <<allowed_extensions, requests_made, archive_url, file_paths,
                   futures, printed, scraped_txt, writes>>

\* as_completed is exhausted: the with block is left normally.
LoopEnd ==
    /\ pc = "as_completed"
    /\ consumed = 1..Len(futures)
    /\ pc' = "exit_pool"
    /\ UNCHANGED <<allowed_extensions, requests_made, archive_url, file_paths,
                   futures, consumed, code_buffer, error, printed, scraped_txt,
                   writes>>

\* ProcessPoolExecutor.__exit__ calls shutdown(wait=True).
\* (faulty variant: shutdown(wait=False))
ShutdownNoWait(fs) == TRUE
ShutdownWait(fs) == \A i \in 1..Len(fs) : fs[i].st = "done"

\* Leaving the with block: return code_buffer, or let the exception out.
ExitPool ==
    /\ pc = "exit_pool"
    /\ ShutdownWait(futures)
    /\ pc' = IF error = "" THEN "returned" ELSE "except"
    /\ UNCHANGED <<allowed_extensions, requests_made, archive_url, file_paths,
                   futures, consumed, code_buffer, error, printed, scraped_txt,
                   writes>>

\* print(f"Scraping took ..."); open("scraped.txt", "w"); file.write(code)
WriteFile ==
    /\ pc = "returned"
    /\ printed' = "Scraping took"
    /\ scraped_txt' = <<code_buffer>>
    /\ writes' = writes + 1
    /\ pc' = "done"
    /\ UNCHANGED <<allowed_extensions, requests_made, archive_url, file_paths,
                   futures, consumed, code_buffer, error>>

\* except Exception as e: print(f"An error occurred: {str(e)}")
Except ==
    /\ pc = "except"
    /\ printed' = "An error occurred"
    /\ pc' = "done"
    /\ UNCHANGED <<allowed_extensions, requests_made, archive_url, file_paths,
                   futures, consumed, code_buffer, error, scraped_txt, writes>>

\* -------------------------------------------------------- pool processes
PoolAlive == pc \in {"as_completed", "exit_pool"}

Busy == { i \in 1..Len(futures) : futures[i].st = "fetching" }

\* A free worker takes the oldest queued call and runs _scrape_code_for_file
\* up to the point where requests.get is issued.
StartCall(i) ==
    /\ PoolAlive
    /\ i \in 1..Len(futures)
    /\ futures[i].st = "pending"
    /\ \A j \in 1..(i - 1) : futures[j].st # "pending"
    /\ Cardinality(Busy) < MaxWorkers
    /\ LET f == futures[i]
       IN  IF IssuesRequest(f.path, allowed_extensions)
           THEN \E r \in Responses :
                    futures' = [futures EXCEPT ![i] =
                        [f EXCEPT !.st = "fetching", !.calls = @ + 1,
                                  !.fetches = @ + 1, !.response = r]]
           ELSE LET end == ScrapeCodeForFile(f.path, allowed_extensions, NoResponse)
                IN  futures' = [futures EXCEPT ![i] =
                        [f EXCEPT !.st = "done", !.calls = @ + 1,
                                  !.result = end.result, !.exc = end.exc]]
    /\ UNCHANGED <<pc, allowed_extensions, requests_made, archive_url,
                   file_paths, consumed, code_buffer, error, printed,
                   scraped_txt, writes>>

\* requests.get returns and the call finishes.
FinishCall(i) ==
    /\ i \in 1..Len(futures)
    /\ futures[i].st = "fetching"
    /\ futures[i].response.kind # "hang"
    /\ LET f == futures[i]
           end == ScrapeCodeForFile(f.path, allowed_extensions, f.response)
       IN  futures' = [futures EXCEPT ![i] =
               [f EXCEPT !.st = "done", !.result = end.result, !.exc = end.exc]]
    /\ UNCHANGED <<pc, allowed_extensions, requests_made, archive_url,
                   file_paths, consumed, code_buffer, error, printed,
                   scraped_txt, writes>>

Main ==
    \/ GetArchiveUrl
    \/ GetAllFilePaths
    \/ Submit
    \/ \E i \in 1..Len(futures) : Collect(i)
    \/ LoopEnd
    \/ ExitPool
    \/ WriteFile
    \/ Except

Workers ==
    \/ \E i \in 1..Len(futures) : StartCall(i)
    \/ \E i \in 1..Len(futures) : FinishCall(i)

Next == Main \/ Workers

Spec == Init /\ [][Next]_vars

\* The operating system runs every runnable process: the run does not stop
\* while the main process or a pool worker can take a step.
FairSpec == Init /\ [][Next]_vars /\ WF_vars(Next)

\* ================================================================ claims
\* ---- vocabulary of the claims, stated on the entry path itself
HasSlash(path) == \E k \in 1..Len(path) : path[k] = "/"
FirstSlash(path) ==
    CHOOSE k \in 1..Len(path) : path[k] = "/" /\ \A j \in 1..(k - 1) : path[j] # "/"
LastSlash(path) ==
    CHOOSE k \in 1..Len(path) : path[k] = "/" /\ \A j \in (k + 1)..Len(path) : path[j] # "/"
\* The path below the top-level directory, and its last segment.
RelativePath(path) == SubSeq(path, FirstSlash(path) + 1, Len(path))
NameOf(path) == SubSeq(path, LastSlash(path) + 1, Len(path))
HasSuffix(s, suffix) == \E n \in 0..Len(s) : SubSeq(s, n + 1, Len(s)) = suffix
Eligible(path, exts) ==
    HasSlash(path) /\ \E k \in 1..Len(exts) : HasSuffix(NameOf(path), exts[k])

StartMarker(path) ==
    <<"\n", "\"", RAW_HOST, owner, "/", repo, "/main/">> \o RelativePath(path)
        \o <<"\"", " starts here", "\n">>
EndMarker(path) == <<"\n", "\"">> \o NameOf(path) \o <<"\"", " ends here", "\n">>
ExpectedFragment(path, text) == StartMarker(path) \o text \o EndMarker(path)

\* Number of (possibly overlapping) occurrences of pat in s.
Occurrences(pat, s) ==
    Cardinality({ k \in 1..(Len(s) - Len(pat) + 1) : SubSeq(s, k, k + Len(pat) - 1) = pat })
NoMarkerText(text) ==
    \A k \in 1..Len(text) : text[k] \notin {" starts here", " ends here"}

ArchiveStageErrors == {"HTTPError", "KeyError", "BadZipFile"}
\* The list comprehension of scrape_code has run.
Submitted ==
    /\ pc \notin {"get_archive_url", "download", "submit"}
    /\ error \notin ArchiveStageErrors
\* scrape_code has returned or raised.
ScrapeCodeOver == pc \in {"returned", "except", "done"}
Done(i) == futures[i].st = "done"

\* A sequential, left-to-right run of _scrape_code_for_file over the list.
RECURSIVE SequentialBuffer(_, _, _)
SequentialBuffer(paths, exts, responses) ==
    IF paths = <<>> THEN <<>>
    ELSE ScrapeCodeForFile(Head(paths), exts, Head(responses)).result
             \o SequentialBuffer(Tail(paths), exts, Tail(responses))
SequentialFragment(i) ==
    ScrapeCodeForFile(file_paths[i], allowed_extensions, futures[i].response).result

RECURSIVE ConcatInOrder(_, _, _)
ConcatInOrder(frags, p, k) ==
    IF k > Len(frags) THEN <<>> ELSE frags[p[k]] \o ConcatInOrder(frags, p, k + 1)
\* buffer is the concatenation of frags in some order.
IsShuffleOf(buffer, frags) ==
    \E p \in Permutations(1..Len(frags)) : buffer = ConcatInOrder(frags, p, 1)

\* C1: the buffer scrape_code returns holds exactly the fragments of a
\* sequential run over the same list with the same fetch outcomes, in some
\* order: one per eligible, successfully fetched path and none for others.
C1_ParallelEqualsSequential ==
    pc = "returned" =>
        /\ Len(futures) = Len(file_paths)
        /\ IsShuffleOf(code_buffer, [i \in 1..Len(file_paths) |-> SequentialFragment(i)])
        /\ Len(code_buffer) =
               Len(SequentialBuffer(file_paths, allowed_extensions,
                                    [i \in 1..Len(file_paths) |-> futures[i].response]))
        /\ \A i \in 1..Len(file_paths) :
               SequentialFragment(i) =
                   IF Eligible(file_paths[i], allowed_extensions)
                          /\ futures[i].response.kind = "ok"
                   THEN ExpectedFragment(file_paths[i], futures[i].response.text)
                   ELSE <<>>

\* Two fragments collected against list order, next to a filtered path.
C1_Witness ==
    /\ pc = "returned"
    /\ \E i, j \in 1..Len(file_paths) :
           /\ i < j
           /\ futures[i].result # <<>>
           /\ futures[j].result # <<>>
           /\ futures[i].result # futures[j].result
           /\ code_buffer = futures[j].result \o futures[i].result
    /\ \E k \in 1..Len(file_paths) : ~ Eligible(file_paths[k], allowed_extensions)

C3_ExactlyOneMarkerEach ==
    \A i \in 1..Len(futures) :
        (Done(i) /\ Eligible(futures[i].path, allowed_extensions)
                 /\ futures[i].response.kind = "ok") =>
            /\ futures[i].result =
                   ExpectedFragment(futures[i].path, futures[i].response.text)
            /\ Occurrences(StartMarker(futures[i].path), futures[i].result) = 1
            /\ Occurrences(EndMarker(futures[i].path), futures[i].result) = 1

\* C3 amended: the fragment is the start marker (with the raw URL of the
\* relative path), the fetched content, and the end marker (with the file
\* name), in that order and nothing else; each marker occurs exactly once
\* when neither the content nor the path holds marker text.
C3_FragmentIsMarkersAroundContent ==
    \A i \in 1..Len(futures) :
        (Done(i) /\ Eligible(futures[i].path, allowed_extensions)
                 /\ futures[i].response.kind = "ok") =>
            /\ futures[i].exc = ""
            /\ futures[i].result =
                   ExpectedFragment(futures[i].path, futures[i].response.text)
            /\ (NoMarkerText(futures[i].response.text) /\ NoMarkerText(futures[i].path)) =>
                   /\ Occurrences(StartMarker(futures[i].path), futures[i].result) = 1
                   /\ Occurrences(EndMarker(futures[i].path), futures[i].result) = 1

\* A nested file was fetched, plain text and quoted output both seen.
C3_Witness ==
    \E i, j \in 1..Len(futures) :
        /\ Done(i) /\ Done(j)
        /\ futures[i].response = [kind |-> "ok", text |-> PlainText]
        /\ futures[j].response = [kind |-> "ok", text |-> QuotedOutput]
        /\ RelativePath(futures[i].path) # NameOf(futures[i].path)

\* C4: a failed raw-file fetch is swallowed in its own call: the call returns
\* the empty string, the run is not aborted by it, the file is written and
\* holds the fragments of all other eligible files and nothing of the failed.
C4_FetchFailureIsSwallowed ==
    /\ \A i \in 1..Len(futures) :
           (Done(i) /\ futures[i].response.kind = "error") =>
               futures[i].result = <<>> /\ futures[i].exc = ""
    /\ error # "RequestException"
    /\ (pc = "done" /\ Submitted /\ \A i \in 1..Len(file_paths) : HasSlash(file_paths[i])) =>
           /\ writes = 1
           /\ printed = "Scraping took"
           /\ scraped_txt = <<code_buffer>>
           /\ IsShuffleOf(code_buffer,
                  [i \in 1..Len(file_paths) |->
                      IF Eligible(file_paths[i], allowed_extensions)
                             /\ futures[i].response.kind = "ok"
                      THEN ExpectedFragment(file_paths[i], futures[i].response.text)
                      ELSE <<>>])

\* A run with one failed and one successful fetch has written its file.
C4_Witness ==
    /\ pc = "done"
    /\ writes = 1
    /\ \E i, j \in 1..Len(futures) :
           /\ futures[i].response.kind = "error"
           /\ futures[j].response.kind = "ok"
           /\ scraped_txt = <<futures[j].result>>

\* C5: a non-success status on either archive request raises at once: it is
\* the last request made, nothing is submitted or fetched, no file is
\* written and the error message is printed.
C5_ArchiveFailureAborts ==
    (\E k \in 1..Len(requests_made) : requests_made[k].status >= 400) =>
        /\ requests_made[Len(requests_made)].status >= 400
        /\ \A k \in 1..(Len(requests_made) - 1) : requests_made[k].status < 400
        /\ Len(requests_made) <= 2
        /\ pc \in {"except", "done"}
        /\ error = "HTTPError"
        /\ file_paths = <<>>
        /\ futures = <<>>
        /\ writes = 0 /\ scraped_txt = <<>>
        /\ pc = "done" => printed = "An error occurred"

\* The archive download (second request) failed and the run has ended.
C5_Witness ==
    /\ pc = "done"
    /\ Len(requests_made) = 2
    /\ requests_made[2].status = 404

\* C6: every path of the entry list is handed to the fetcher exactly once:
\* one call per list position, never a second call or a second request, and
\* all of them made by the time scrape_code is over.
C6_EveryPathOnce ==
    Submitted =>
        /\ Len(futures) = Len(file_paths)
        /\ \A i \in 1..Len(futures) :
               /\ futures[i].path = file_paths[i]
               /\ futures[i].calls = (IF futures[i].st = "pending" THEN 0 ELSE 1)
               /\ futures[i].fetches <= 1
        /\ ScrapeCodeOver => \A i \in 1..Len(file_paths) : futures[i].calls = 1

\* A full-length list, duplicate entry included, has been worked off.
C6_Witness ==
    /\ ScrapeCodeOver
    /\ Len(file_paths) = MaxFiles
    /\ \E i, j \in 1..Len(file_paths) : i # j /\ file_paths[i] = file_paths[j]
    /\ \A i \in 1..Len(futures) : futures[i].calls = 1

\* C7: when scrape_code returns or raises, every submitted call has
\* completed; and the buffer grows only in the as_completed loop of the main
\* process, by the result of one completed call per step.
C7_NoReturnWhilePending ==
    /\ [](ScrapeCodeOver /\ Submitted => \A i \in 1..Len(futures) : Done(i))
    /\ [][code_buffer' # code_buffer =>
            /\ pc = "as_completed"
            /\ futures' = futures
            /\ \E i \in (1..Len(futures)) \ consumed :
                   /\ Done(i)
                   /\ consumed' = consumed \cup {i}
                   /\ code_buffer' = code_buffer \o futures[i].result]_vars

\* scrape_code raised, and a fetch that was still running then has finished
\* without being collected.
C7_Witness ==
    /\ pc = "except"
    /\ error = "IndexError"
    /\ \E i \in (1..Len(futures)) \ consumed : Done(i) /\ futures[i].fetches = 1

\* A response signals a redirect: a redirect status with a target to go to.
RedirectStatuses == {301, 302, 303, 307, 308}
SignalsRedirect(r) == r.status \in RedirectStatuses /\ r.location # NoHeader

\* C8 as stated: get_archive_url returns the Location header whenever the
\* response signals a redirect and the endpoint URL in every other successful
\* case, and that URL is the one downloaded next.
C8_RedirectTargetReturned ==
    (Len(requests_made) >= 1 /\ requests_made[1].status < 400) =>
        /\ error \notin {"KeyError"}
        /\ archive_url = (IF SignalsRedirect(requests_made[1])
                          THEN <<requests_made[1].location>>
                          ELSE ArchiveEndpoint)
        /\ Len(requests_made) >= 2 => requests_made[2].url = archive_url

\* C9: an exception of a call that is no request exception (IndexError on a
\* path with nothing below the top-level directory) is not swallowed: the
\* run ends with the error printed and no file written.
C9_OtherExceptionsAbort ==
    /\ \A i \in 1..Len(futures) :
           (Done(i) /\ ~ HasSlash(futures[i].path)) =>
               futures[i].exc = "IndexError" /\ futures[i].fetches = 0
    /\ (Submitted /\ ScrapeCodeOver /\ \E i \in 1..Len(file_paths) : ~ HasSlash(file_paths[i])) =>
           /\ error = "IndexError"
           /\ pc # "returned"
           /\ writes = 0 /\ scraped_txt = <<>>
           /\ pc = "done" => printed = "An error occurred"

\* The run was aborted although another file had been fetched successfully.
C9_Witness ==
    /\ pc = "done"
    /\ error = "IndexError"
    /\ \E j \in 1..Len(futures) : futures[j].result # <<>>

\* A per-file request that never returns is in flight.
Hung == \E i \in 1..Len(futures) :
            futures[i].st = "fetching" /\ futures[i].response.kind = "hang"
\* The run is over: the file written once, or the error printed.
Terminated ==
    /\ pc = "done"
    /\ \/ writes = 1 /\ printed = "Scraping took" /\ error = ""
       \/ writes = 0 /\ printed = "An error occurred" /\ error # ""

\* C10: with fair scheduling, a run in which every request returns ends,
\* the file written once or an error printed; and once a per-file request
\* hangs, scrape_code never returns and the file is never written.
C10_TerminatesUnlessHung ==
    /\ <>(Terminated \/ Hung)
    /\ [](Hung => ~ ScrapeCodeOver /\ writes = 0 /\ printed = "")
    /\ [][Hung => Hung']_vars

\* A run that fetched over the network has ended with its file written.
C10_Witness ==
    /\ Terminated
    /\ writes = 1
    /\ \E i \in 1..Len(futures) : futures[i].fetches = 1

====
